---- MODULE Spec2Model ----
(***************************************************************************)
(* The download job queue of queue_manager_refactored.py: QueueItemData,   *)
(* QueueManager (add / select / update / retry / remove), the persisted     *)
(* store with its backup copy, and construction of a manager from them.    *)
(***************************************************************************)
EXTENDS Integers, Sequences, FiniteSets, TLC

VARIABLES
    queue,         \* QueueManager._queue: the list of QueueItemData
    current,       \* QueueManager._current_download (NoCurrent for None)
    queue_file,    \* the file at config.queue_file
    backup_file,   \* the file at config.backup_file
    nextId,        \* the next id uuid4 hands out
    now,           \* datetime.now()
    op,            \* the last call: [name, id]
    ret,           \* what the last call returned or raised
    events,        \* the listener notifications the last call made
    pendingOrder,  \* history: ids of the pending items, in the order they became pending
    retried,       \* history: per id, the number of retry_item calls that returned True
    listeners,     \* QueueManager._listeners: the registered listeners, in registration order
    delivered,     \* the listener methods the last call awaited, in call order
    sched,         \* the coroutines calling the manager: holder of QueueManager._lock, and
                   \* where each caller is in its call
    exported       \* the module-level names download_queue and current_download: the
                   \* list and the item they denote

vars == <<queue, current, queue_file, backup_file, nextId, now, op, ret, events,
          pendingOrder, retried, listeners, delivered, sched, exported>>

----------------------------------------------------------------------------
(* Bounds of the model *)

\* ids uuid4 can hand out in one behaviour
MaxItems == 4
\* ids handed out in the lifecycle specification
MaxLifeItems == 1
\* ids handed out in the startup and retry-placement specifications
MaxJobs == 2
\* values datetime.now() takes
MaxClock == 2
\* QueueConfig.max_queue_size (configurable; 1000 by default)
max_queue_size == 3
\* QueueConfig.max_completed_items (configurable; 100 by default)
max_completed_items == 1

\* coroutines calling the manager concurrently
MaxCallers == 2
\* listeners registered with add_listener
MaxListeners == 2

\* ids handed out in the clear_user_queue specification
MaxClearItems == 4

\* QueueConfig.auto_cleanup_age, in clock values (configurable; 86400 s by default)
auto_cleanup_age == 0

\* QueueConfig.enable_persistence
enable_persistence == TRUE

Callers == 1..MaxCallers

----------------------------------------------------------------------------
(* Enumerations: members by name, serialised by value *)

QueueStatus == {"PENDING", "DOWNLOADING", "PROCESSING", "COMPLETED", "FAILED",
                "CANCELLED", "PAUSED"}

Priority == {"LOW", "NORMAL", "HIGH", "URGENT"}

DownloadType == {"VIDEO", "AUDIO", "IMAGES", "STORY", "PLAYLIST",
                 "GENERIC_QUALITY", "VIDEO_CUT"}

\* the .value of an enum member
EnumValue(m) ==
    CASE m = "PENDING" -> "pending" [] m = "DOWNLOADING" -> "downloading"
      [] m = "PROCESSING" -> "processing" [] m = "COMPLETED" -> "completed"
      [] m = "FAILED" -> "failed" [] m = "CANCELLED" -> "cancelled"
      [] m = "PAUSED" -> "paused"
      [] m = "LOW" -> "low" [] m = "NORMAL" -> "normal"
      [] m = "HIGH" -> "high" [] m = "URGENT" -> "urgent"
      [] m = "VIDEO" -> "video" [] m = "AUDIO" -> "audio"
      [] m = "IMAGES" -> "images" [] m = "STORY" -> "story"
      [] m = "PLAYLIST" -> "playlist" [] m = "GENERIC_QUALITY" -> "generic_quality"
      [] m = "VIDEO_CUT" -> "video_cut"

\* Enum(value): the member of the enumeration E with that value
EnumOf(E, v) == CHOOSE m \in E : EnumValue(m) = v

\* Priority.__lt__'s priority_order
priority_order(p) ==
    CASE p = "LOW" -> 0 [] p = "NORMAL" -> 1 [] p = "HIGH" -> 2 [] p = "URGENT" -> 3

\* the characters (code points) of a priority value string
Chars(s) ==
    CASE s = "low" -> <<108, 111, 119>>
      [] s = "normal" -> <<110, 111, 114, 109, 97, 108>>
      [] s = "high" -> <<104, 105, 103, 104>>
      [] s = "urgent" -> <<117, 114, 103, 101, 110, 116>>

RECURSIVE SeqGreater(_, _)
\* Python's > on two strings, given as their characters: lexicographic
SeqGreater(a, b) ==
    IF a = <<>> THEN FALSE
    ELSE IF b = <<>> THEN TRUE
    ELSE IF Head(a) # Head(b) THEN Head(a) > Head(b)
    ELSE SeqGreater(Tail(a), Tail(b))

\* str.__gt__
StrGreater(s, t) == SeqGreater(Chars(s), Chars(t))

----------------------------------------------------------------------------
(* QueueItemData *)

\* None, for the optional timestamps
NoTime == 0
\* None, for error_message
NoError == "None"
\* None, for an item reference
NoId == 0
\* None, for an optional chat_id argument
NoChat == -1
\* _current_download = None
NoCurrent == [id |-> NoId, chat_id |-> 0]

\* QueueItemData(...) as add_item builds it; the defaults of the dataclass
NewItem(id, chat_id, priority, max_retries) ==
    [id |-> id, chat_id |-> chat_id, download_type |-> "VIDEO",
     priority |-> priority, status |-> "PENDING", created_time |-> now,
     started_time |-> NoTime, completed_time |-> NoTime,
     error_message |-> NoError, progress |-> 0, retry_count |-> 0,
     max_retries |-> max_retries]

\* can_retry with the comparison off by one
can_retry_inclusive(item) == item.retry_count <= item.max_retries /\ item.status = "FAILED"

can_retry(item) == item.retry_count < item.max_retries /\ item.status = "FAILED"

\* to_dict: asdict with the enums replaced by their values
to_dict(item) ==
    [item EXCEPT !.download_type = EnumValue(item.download_type),
                 !.priority = EnumValue(item.priority),
                 !.status = EnumValue(item.status)]

\* from_dict whose __post_init__ leaves the priority as the stored string
from_dict_raw_priority(data) ==
    [data EXCEPT !.download_type = EnumOf(DownloadType, data.download_type),
                 !.status = EnumOf(QueueStatus, data.status)]

\* from_dict: cls(**data); __post_init__ turns the strings into enums
from_dict(data) ==
    [data EXCEPT !.download_type = EnumOf(DownloadType, data.download_type),
                 !.priority = EnumOf(Priority, data.priority),
                 !.status = EnumOf(QueueStatus, data.status)]

----------------------------------------------------------------------------
(* List helpers *)

Ids(q) == {q[i].id : i \in DOMAIN q}

\* list.insert(pos, item), pos counted from 0
ListInsert(q, pos, item) == SubSeq(q, 1, pos) \o <<item>> \o SubSeq(q, pos + 1, Len(q))

RemoveIds(q, S) == SelectSeq(q, LAMBDA it : it.id \notin S)

\* _find_item: the index of the first item with that id, 0 when there is none
_find_item(q, item_id) ==
    IF \E i \in DOMAIN q : q[i].id = item_id
    THEN CHOOSE i \in DOMAIN q : q[i].id = item_id /\ \A j \in 1..(i - 1) : q[j].id # item_id
    ELSE 0

\* _insert_by_priority: before the first pending item whose priority value is smaller
_insert_by_priority(q, item) ==
    LET hits == {i \in DOMAIN q :
                    /\ q[i].status = "PENDING"
                    /\ StrGreater(EnumValue(item.priority), EnumValue(q[i].priority))}
        insert_pos == IF hits = {} THEN Len(q)
                      ELSE (CHOOSE i \in hits : \A j \in hits : i <= j) - 1
    IN ListInsert(q, insert_pos, item)
----------------------------------------------------------------------------
(* Persistence.  A file is [state, data]: absent, ok (data is the JSON array), *)
(* unreadable (opening it raises) or corrupt (json.load raises).             *)

NoFile == [state |-> "absent", data |-> <<>>]

\* how the write of _save_queue ends: done, open() raises, json.dump raises
WriteOutcomes == {"ok", "open_fail", "dump_fail"}

RECURSIVE SortedInsert(_, _)
\* place item after every element whose key is not greater (list.sort is stable)
SortedInsert(sorted, item) ==
    IF sorted = <<>> THEN <<item>>
    ELSE IF Head(sorted).key <= item.key THEN <<Head(sorted)>> \o SortedInsert(Tail(sorted), item)
    ELSE <<item>> \o sorted

RECURSIVE SortByKey(_)
\* list.sort(key=...) on a list of [key, id]
SortByKey(s) ==
    IF s = <<>> THEN <<>>
    ELSE SortedInsert(SortByKey(SubSeq(s, 1, Len(s) - 1)), s[Len(s)])

\* the key of the sort in _save_queue: completed_time or created_time
PruneKey(item) == IF item.completed_time # NoTime THEN item.completed_time ELSE item.created_time

\* _save_queue keeping the oldest completed/failed items and dropping the newest
items_to_remove_newest(q) ==
    LET completed_items == SelectSeq(q, LAMBDA it : it.status \in {"COMPLETED", "FAILED"})
        keyed == [i \in DOMAIN completed_items |->
                     [key |-> PruneKey(completed_items[i]), id |-> completed_items[i].id]]
        sorted == SortByKey(keyed)
    IN IF Len(completed_items) > max_completed_items
       THEN {sorted[i].id : i \in (max_completed_items + 1)..Len(sorted)}
       ELSE {}

\* _save_queue, lines 586-597: the ids of the oldest completed/failed items beyond the ceiling
items_to_remove(q) ==
    IF Len(q) > max_completed_items
    THEN LET completed_items == SelectSeq(q, LAMBDA it : it.status \in {"COMPLETED", "FAILED"})
             keyed == [i \in DOMAIN completed_items |->
                          [key |-> PruneKey(completed_items[i]), id |-> completed_items[i].id]]
             sorted == SortByKey(keyed)
             \* completed_items[:-max_completed_items]; [:-0] is the empty list
             cut == IF max_completed_items = 0 THEN 0 ELSE Len(sorted) - max_completed_items
         IN IF Len(completed_items) > max_completed_items
            THEN {sorted[i].id : i \in 1..cut}
            ELSE {}
    ELSE {}

\* _save_queue: the queue file after the call
SavedFile(q, wr) ==
    IF ~enable_persistence \/ wr = "open_fail" THEN queue_file
    ELSE IF wr = "dump_fail" THEN [state |-> "corrupt", data |-> <<>>]
    ELSE [state |-> "ok", data |-> [i \in DOMAIN q |-> to_dict(q[i])]]

\* _save_queue undoing the caller's change when the write fails
SavedQueueRollback(q, wr) ==
    IF enable_persistence /\ wr = "ok" THEN RemoveIds(q, items_to_remove(q)) ELSE queue

\* _save_queue: the in-memory list after the call
SavedQueue(q, wr) ==
    IF enable_persistence /\ wr = "ok" THEN RemoveIds(q, items_to_remove(q)) ELSE q

\* json.load + from_dict over a readable file
ParseFile(f) == [i \in DOMAIN f.data |-> from_dict(f.data[i])]

\* _load_backup: the list it leaves in _queue
_load_backup == IF backup_file.state = "ok" THEN ParseFile(backup_file) ELSE <<>>

\* _load_queue without the reset of the items that were being processed
_load_queue_as_stored ==
    IF queue_file.state = "absent" THEN <<>>
    ELSE IF queue_file.state = "ok" THEN ParseFile(queue_file)
    ELSE _load_backup

\* _load_queue: the list it leaves in _queue
_load_queue ==
    IF queue_file.state = "absent" THEN <<>>
    ELSE IF queue_file.state = "ok"
    THEN LET loaded == ParseFile(queue_file)
         IN [i \in DOMAIN loaded |->
                IF loaded[i].status = "DOWNLOADING"
                THEN [loaded[i] EXCEPT !.status = "PENDING", !.started_time = NoTime]
                ELSE loaded[i]]
    ELSE _load_backup

\* _create_backup: the backup file after shutil.copy2
_create_backup ==
    IF queue_file.state \in {"ok", "corrupt"} THEN queue_file ELSE backup_file

----------------------------------------------------------------------------
(* History bookkeeping *)

\* pendingOrder after the list became q2: the ids still pending, then the newly pending
TrackPending(q2) ==
    LET pend == {q2[i].id : i \in {j \in DOMAIN q2 : q2[j].status = "PENDING"}}
        kept == SelectSeq(pendingOrder, LAMBDA id : id \in pend)
        old  == {pendingOrder[i] : i \in DOMAIN pendingOrder}
        new  == SelectSeq(q2, LAMBDA it : it.status = "PENDING" /\ it.id \notin old)
    IN kept \o [i \in DOMAIN new |-> new[i].id]

\* the place of the first listener of ls that raises; Len(ls) when none does
RECURSIVE FirstRaising(_)
FirstRaising(ls) ==
    IF ls = <<>> \/ Head(ls).raises THEN IF ls = <<>> THEN 0 ELSE 1
    ELSE 1 + FirstRaising(Tail(ls))

\* _notify_listeners without the try/except: the first exception ends the loop
_notify_listeners_unguarded(ls, method_name, item_id) ==
    [i \in 1..FirstRaising(ls) |->
        [listener |-> ls[i].name, method |-> method_name, id |-> item_id]]

\* _notify_listeners: each listener's method is awaited in turn inside its own
\* try/except Exception, so a listener that raises does not end the loop
_notify_listeners(ls, method_name, item_id) ==
    [i \in DOMAIN ls |-> [listener |-> ls[i].name, method |-> method_name, id |-> item_id]]

\* the awaits made for the notifications ev of one call
RECURSIVE Deliver(_, _)
Deliver(ls, ev) ==
    IF ev = <<>> THEN <<>>
    ELSE _notify_listeners(ls, Head(ev)[1], Head(ev)[2]) \o Deliver(ls, Tail(ev))

\* an operation that does not take the lock
LockIgnored == TRUE

\* `async with self._lock` can be entered: asyncio.Lock is free
LockFree == sched.lock = 0

\* the body of a call under the lock has run to its `await self._notify_listeners`
AfterBody ==
    IF sched.lock = 0 THEN sched
    ELSE [sched EXCEPT !.pc[sched.lock] = "notifying"]

\* the operations that bind _queue to a new list (self._queue = [...])
RebindingOps == {"clear_user_queue", "clear_completed_items"}

\* a list object that is no longer _queue, after _queue became q2: its items are the
\* objects they were, so those still in q2 show their current fields
Refresh(old, q2) ==
    [i \in DOMAIN old |->
        IF \E k \in DOMAIN q2 : q2[k].id = old[i].id
        THEN q2[CHOOSE k \in DOMAIN q2 : q2[k].id = old[i].id]
        ELSE old[i]]

\* the module-level names after the call name left q2 in _queue: download_queue is
\* the list object _queue was bound to at import, current_download the None it held
Exported(name, q2) ==
    IF exported.shared /\ name \notin RebindingOps
    THEN [exported EXCEPT !.download_queue = q2]
    ELSE [download_queue |-> Refresh(IF exported.shared THEN queue ELSE exported.download_queue, q2),
          shared |-> FALSE,
          current_download |-> exported.current_download]

\* the common tail of every call: what it leaves behind
Finish(name, id, r, ev, q2, cur2, file2) ==
    /\ queue' = q2
    /\ current' = cur2
    /\ queue_file' = file2
    /\ op' = [name |-> name, id |-> id]
    /\ ret' = r
    /\ events' = ev
    /\ pendingOrder' = TrackPending(q2)
    /\ delivered' = Deliver(listeners, ev)
    /\ sched' = AfterBody
    /\ exported' = Exported(name, q2)
    /\ UNCHANGED <<backup_file, listeners>>

----------------------------------------------------------------------------
(* QueueManager operations *)

\* add_item raised ValueError
ValueError == "ValueError"

\* what a call hands back: a value (an id, a count, a position; NoId for None),
\* a boolean, or an exception
Returned(v) == [value |-> v]

ReturnedBool(b) == [bool |-> b]

Raised(e) == [raised |-> e]

\* progress=None
NoProgress == -1000

TerminalStatus == {"COMPLETED", "FAILED", "CANCELLED"}

\* add_item whose size test is > instead of >=
add_item_one_more(chat_id, priority, max_retries, wr) ==
    /\ nextId <= MaxItems
    /\ IF Len(queue) > max_queue_size
       THEN /\ Finish("add_item", NoId, Raised(ValueError), <<>>, queue, current, queue_file)
            /\ UNCHANGED <<nextId, now, retried>>
       ELSE LET item == NewItem(nextId, chat_id, priority, max_retries)
                q1 == _insert_by_priority(queue, item)
            IN /\ Finish("add_item", item.id, Returned(item.id), <<<<"on_item_added", item.id>>>>,
                         SavedQueue(q1, wr), current, SavedFile(q1, wr))
               /\ nextId' = nextId + 1
               /\ UNCHANGED <<now, retried>>

add_item(chat_id, priority, max_retries, wr) ==
    /\ nextId <= MaxItems
    /\ IF Len(queue) >= max_queue_size
       THEN /\ Finish("add_item", NoId, Raised(ValueError), <<>>, queue, current, queue_file)
            /\ UNCHANGED <<nextId, now, retried>>
       ELSE LET item == NewItem(nextId, chat_id, priority, max_retries)
                q1 == _insert_by_priority(queue, item)
            IN /\ Finish("add_item", item.id, Returned(item.id), <<<<"on_item_added", item.id>>>>,
                         SavedQueue(q1, wr), current, SavedFile(q1, wr))
               /\ nextId' = nextId + 1
               /\ UNCHANGED <<now, retried>>

\* get_next_item that unsets the marker when it finds no pending item
get_next_item_idles(wr) ==
    LET pend == {i \in DOMAIN queue : queue[i].status = "PENDING"}
    IN IF pend = {}
       THEN /\ Finish("get_next_item", NoId, Returned(NoId), <<>>, queue, NoCurrent, queue_file)
            /\ UNCHANGED <<nextId, now, retried>>
       ELSE LET i == CHOOSE k \in pend : \A j \in pend : k <= j
                item == [queue[i] EXCEPT !.status = "DOWNLOADING", !.started_time = now]
                q1 == [queue EXCEPT ![i] = item]
            IN /\ Finish("get_next_item", item.id, Returned(item.id),
                         <<<<"on_item_started", item.id>>>>,
                         SavedQueue(q1, wr), [id |-> item.id, chat_id |-> item.chat_id],
                         SavedFile(q1, wr))
               /\ UNCHANGED <<nextId, now, retried>>

get_next_item(wr) ==
    LET pend == {i \in DOMAIN queue : queue[i].status = "PENDING"}
    IN IF pend = {}
       THEN /\ Finish("get_next_item", NoId, Returned(NoId), <<>>, queue, current, queue_file)
            /\ UNCHANGED <<nextId, now, retried>>
       ELSE LET i == CHOOSE k \in pend : \A j \in pend : k <= j
                item == [queue[i] EXCEPT !.status = "DOWNLOADING", !.started_time = now]
                q1 == [queue EXCEPT ![i] = item]
            IN /\ Finish("get_next_item", item.id, Returned(item.id), <<<<"on_item_started", item.id>>>>,
                         SavedQueue(q1, wr), [id |-> item.id, chat_id |-> item.chat_id],
                         SavedFile(q1, wr))
               /\ UNCHANGED <<nextId, now, retried>>

\* max(0, min(100, progress))
Clamp(progress) == IF progress < 0 THEN 0 ELSE IF progress > 100 THEN 100 ELSE progress

update_item_status(item_id, status, error_message, progress, wr) ==
    LET i == _find_item(queue, item_id)
    IN IF i = 0
       THEN /\ Finish("update_item_status", item_id, ReturnedBool(FALSE), <<>>, queue, current, queue_file)
            /\ UNCHANGED <<nextId, now, retried>>
       ELSE LET terminal == status \in TerminalStatus
                item == [queue[i] EXCEPT
                            !.status = status,
                            !.error_message = IF error_message \notin {NoError, ""}
                                              THEN error_message ELSE @,
                            !.progress = IF progress # NoProgress THEN Clamp(progress) ELSE @,
                            !.completed_time = IF terminal THEN now ELSE @]
                q1 == [queue EXCEPT ![i] = item]
                cur1 == IF terminal /\ current # NoCurrent /\ current.id = item_id
                        THEN NoCurrent ELSE current
                ev == IF status = "COMPLETED" THEN <<<<"on_item_completed", item_id>>>>
                      ELSE IF status = "FAILED" THEN <<<<"on_item_failed", item_id>>>>
                      ELSE <<>>
            IN /\ Finish("update_item_status", item_id, ReturnedBool(TRUE), ev, SavedQueue(q1, wr), cur1,
                         SavedFile(q1, wr))
               /\ UNCHANGED <<nextId, now, retried>>

\* retry_item that forgets to clear error_message
retry_item_keeps_error(item_id, wr) ==
    LET i == _find_item(queue, item_id)
    IN IF i = 0 \/ ~can_retry(queue[i])
       THEN /\ Finish("retry_item", item_id, ReturnedBool(FALSE), <<>>, queue, current, queue_file)
            /\ UNCHANGED <<nextId, now, retried>>
       ELSE LET item == [queue[i] EXCEPT
                            !.status = "PENDING",
                            !.retry_count = @ + 1,
                            !.progress = 0,
                            !.started_time = NoTime,
                            !.completed_time = NoTime]
                q1 == _insert_by_priority(RemoveIds(queue, {item_id}), item)
            IN /\ Finish("retry_item", item_id, ReturnedBool(TRUE), <<>>, SavedQueue(q1, wr), current,
                         SavedFile(q1, wr))
               /\ retried' = [retried EXCEPT ![item_id] = @ + 1]
               /\ UNCHANGED <<nextId, now>>

retry_item(item_id, wr) ==
    LET i == _find_item(queue, item_id)
    IN IF i = 0 \/ ~can_retry(queue[i])
       THEN /\ Finish("retry_item", item_id, ReturnedBool(FALSE), <<>>, queue, current, queue_file)
            /\ UNCHANGED <<nextId, now, retried>>
       ELSE LET item == [queue[i] EXCEPT
                            !.status = "PENDING",
                            !.retry_count = @ + 1,
                            !.error_message = NoError,
                            !.progress = 0,
                            !.started_time = NoTime,
                            !.completed_time = NoTime]
                q1 == _insert_by_priority(RemoveIds(queue, {item_id}), item)
            IN /\ Finish("retry_item", item_id, ReturnedBool(TRUE), <<>>, SavedQueue(q1, wr), current,
                         SavedFile(q1, wr))
               /\ retried' = [retried EXCEPT ![item_id] = @ + 1]
               /\ UNCHANGED <<nextId, now>>

remove_item(item_id, wr) ==
    LET i == _find_item(queue, item_id)
    IN IF i = 0
       THEN /\ Finish("remove_item", item_id, ReturnedBool(FALSE), <<>>, queue, current, queue_file)
            /\ UNCHANGED <<nextId, now, retried>>
       ELSE LET q1 == RemoveIds(queue, {item_id})
                cur1 == IF current # NoCurrent /\ current.id = item_id
                        THEN NoCurrent ELSE current
            IN /\ Finish("remove_item", item_id, ReturnedBool(TRUE), <<>>, SavedQueue(q1, wr), cur1,
                         SavedFile(q1, wr))
               /\ UNCHANGED <<nextId, now, retried>>

\* clear_user_queue without lines 435-438: the marker is left alone
clear_user_queue_keeps_marker(chat_id, wr) ==
    LET user_items == SelectSeq(queue, LAMBDA it : it.chat_id = chat_id)
        q1 == SelectSeq(queue, LAMBDA it : it.chat_id # chat_id)
    IN /\ Finish("clear_user_queue", chat_id, Returned(Len(user_items)), <<>>, SavedQueue(q1, wr),
                 current, SavedFile(q1, wr))
       /\ UNCHANGED <<nextId, now, retried>>

\* clear_user_queue; op.id records the chat_id argument
clear_user_queue(chat_id, wr) ==
    LET user_items == SelectSeq(queue, LAMBDA it : it.chat_id = chat_id)
        q1 == SelectSeq(queue, LAMBDA it : it.chat_id # chat_id)
        cur1 == IF current # NoCurrent /\ current.chat_id = chat_id THEN NoCurrent ELSE current
    IN /\ Finish("clear_user_queue", chat_id, Returned(Len(user_items)), <<>>, SavedQueue(q1, wr), cur1,
                 SavedFile(q1, wr))
       /\ UNCHANGED <<nextId, now, retried>>

\* clear_completed_items: `if chat_id:` is false for None and for 0, and then the
\* completed items of every requester are removed; the marker is left alone
clear_completed_items(chat_id, wr) ==
    LET mine(it) == chat_id \in {NoChat, 0} \/ it.chat_id = chat_id
        completed_items == SelectSeq(queue, LAMBDA it : mine(it) /\ it.status = "COMPLETED")
        q1 == SelectSeq(queue, LAMBDA it : ~(mine(it) /\ it.status = "COMPLETED"))
    IN /\ Finish("clear_completed_items", chat_id, Returned(Len(completed_items)), <<>>,
                 SavedQueue(q1, wr), current, SavedFile(q1, wr))
       /\ UNCHANGED <<nextId, now, retried>>

\* what a call that takes no lock and changes nothing leaves behind
Answer(name, id, r) ==
    /\ op' = [name |-> name, id |-> id]
    /\ ret' = r
    /\ events' = <<>>
    /\ delivered' = <<>>
    /\ UNCHANGED <<queue, current, queue_file, backup_file, nextId, now, pendingOrder,
                   retried, listeners, sched, exported>>

\* get_queue_position answering 0 for an item that is not pending
get_queue_position_zero(item_id) ==
    LET pending_items == SelectSeq(queue, LAMBDA it : it.status = "PENDING")
        i == _find_item(pending_items, item_id)
    IN Answer("get_queue_position", item_id, Returned(i))

\* get_queue_position counting every item of the list, pending or not
get_queue_position_in_list(item_id) ==
    LET i == _find_item(queue, item_id)
    IN Answer("get_queue_position", item_id,
              Returned(IF i = 0 \/ queue[i].status # "PENDING" THEN -1 ELSE i))

\* get_queue_position: the 1-based place among the pending items, or -1
get_queue_position(item_id) ==
    LET pending_items == SelectSeq(queue, LAMBDA it : it.status = "PENDING")
        i == _find_item(pending_items, item_id)
    IN Answer("get_queue_position", item_id, Returned(IF i = 0 THEN -1 ELSE i))

\* cleanup_old_items: the completed and failed items created before the cutoff are
\* removed; the list is saved only when there was one
cleanup_old_items(wr) ==
    LET cutoff_time == now - auto_cleanup_age
        old_items == {queue[i].id : i \in {k \in DOMAIN queue :
                          /\ queue[k].status \in {"COMPLETED", "FAILED"}
                          /\ queue[k].created_time < cutoff_time}}
        q1 == RemoveIds(queue, old_items)
        count == Cardinality(old_items)
    IN /\ IF count > 0
          THEN Finish("cleanup_old_items", NoId, Returned(count), <<>>, SavedQueue(q1, wr),
                      current, SavedFile(q1, wr))
          ELSE Finish("cleanup_old_items", NoId, Returned(0), <<>>, queue, current, queue_file)
       /\ UNCHANGED <<nextId, now, retried>>

\* the quotient n / d of a true division, kept exact
Ratio(n, d) == [num |-> n, den |-> d]

\* len([i for i in items if i.status == status])
StatusCount(items, status) == Len(SelectSeq(items, LAMBDA it : it.status = status))

\* _calculate_stats taking the success rate over all the items
_calculate_stats_of_total(items) ==
    LET completed == StatusCount(items, "COMPLETED")
    IN [total |-> Len(items),
        by_status |-> [st \in QueueStatus |-> StatusCount(items, st)],
        success_rate |-> IF Len(items) > 0 THEN Ratio(completed * 100, Len(items))
                         ELSE Ratio(0, 1)]

\* QueueStatistics(items): total, by_status and success_rate of _calculate_stats
\* (the figures by priority, by type and of processing time are left out)
_calculate_stats(items) ==
    LET completed == StatusCount(items, "COMPLETED")
        failed == StatusCount(items, "FAILED")
        total_processed == completed + failed
    IN [total |-> Len(items),
        by_status |-> [st \in QueueStatus |-> StatusCount(items, st)],
        success_rate |-> IF total_processed > 0 THEN Ratio(completed * 100, total_processed)
                         ELSE Ratio(0, 1)]

\* QueueStatistics.get_user_stats
get_user_stats(items, chat_id) ==
    LET user_items == SelectSeq(items, LAMBDA it : it.chat_id = chat_id)
        user_stats == _calculate_stats(user_items)
    IN IF user_items = <<>>
       THEN [total |-> 0, pending |-> 0, downloading |-> 0, completed |-> 0, failed |-> 0,
             success_rate |-> Ratio(0, 1)]
       ELSE [total |-> user_stats.total,
             pending |-> user_stats.by_status["PENDING"],
             downloading |-> user_stats.by_status["DOWNLOADING"],
             processing |-> user_stats.by_status["PROCESSING"],
             completed |-> user_stats.by_status["COMPLETED"],
             failed |-> user_stats.by_status["FAILED"],
             cancelled |-> user_stats.by_status["CANCELLED"],
             success_rate |-> user_stats.success_rate]

\* a QueueStatistics object or a dictionary of figures, returned
ReturnedStats(s) == [stats |-> s]

\* get_statistics: `if chat_id:` is false for None and for 0
get_statistics(chat_id) ==
    Answer("get_statistics", chat_id,
           ReturnedStats(IF chat_id \notin {NoChat, 0}
                         THEN get_user_stats(queue, chat_id)
                         ELSE _calculate_stats(queue)))

\* add_listener: append, whether or not the listener is registered already
add_listener(listener) ==
    /\ listeners' = Append(listeners, listener)
    /\ op' = [name |-> "add_listener", id |-> listener.name]
    /\ ret' = Returned(NoId)
    /\ events' = <<>>
    /\ delivered' = <<>>
    /\ UNCHANGED <<queue, current, queue_file, backup_file, nextId, now, pendingOrder,
                   retried, sched, exported>>

\* remove_listener: list.remove of the first equal entry, when there is one
remove_listener(listener) ==
    LET at == {i \in DOMAIN listeners : listeners[i] = listener}
        first == CHOOSE i \in at : \A j \in at : i <= j
    IN /\ listeners' = IF at = {} THEN listeners
                       ELSE SubSeq(listeners, 1, first - 1)
                            \o SubSeq(listeners, first + 1, Len(listeners))
       /\ op' = [name |-> "remove_listener", id |-> listener.name]
       /\ ret' = Returned(NoId)
       /\ events' = <<>>
       /\ delivered' = <<>>
       /\ UNCHANGED <<queue, current, queue_file, backup_file, nextId, now, pendingOrder,
                      retried, sched, exported>>

\* save_queue(): the module-level function that calls _save_queue directly
save_queue(wr) ==
    /\ Finish("save_queue", NoId, Returned(NoId), <<>>, SavedQueue(queue, wr), current,
              SavedFile(queue, wr))
    /\ UNCHANGED <<nextId, now, retried>>

\* QueueManager.__init__ in a new process: the state of a manager just constructed
Construct ==
    LET q2 == IF enable_persistence THEN _load_queue ELSE <<>>
    IN /\ queue' = q2
       /\ current' = NoCurrent
       /\ op' = [name |-> "__init__", id |-> NoId]
       /\ ret' = Returned(NoId)
       /\ events' = <<>>
       /\ pendingOrder' = LET pend == SelectSeq(q2, LAMBDA it : it.status = "PENDING")
                          IN [i \in DOMAIN pend |-> pend[i].id]
       /\ listeners' = <<>>
       /\ delivered' = <<>>
       /\ exported' = [download_queue |-> q2, shared |-> TRUE, current_download |-> NoCurrent]
       /\ UNCHANGED <<queue_file, backup_file, nextId, now, retried, sched>>

\* backup_loop's periodic call of _create_backup, and shutdown's
Backup ==
    /\ backup_file' = _create_backup
    /\ op' = [name |-> "_create_backup", id |-> NoId]
    /\ ret' = Returned(NoId)
    /\ events' = <<>>
    /\ UNCHANGED <<queue, current, queue_file, nextId, now, pendingOrder, retried,
                   listeners, delivered, sched, exported>>

\* the queue file is lost (os.path.exists false), or opening it raises, or json.load raises
QueueFileFault(kind) ==
    /\ queue_file.state = "ok"
    /\ queue_file' = [state |-> kind, data |-> <<>>]
    /\ op' = [name |-> "fault", id |-> NoId]
    /\ ret' = Returned(NoId)
    /\ events' = <<>>
    /\ UNCHANGED <<queue, current, backup_file, nextId, now, pendingOrder, retried,
                   listeners, delivered, sched, exported>>

\* the same for the backup file
BackupFileFault(kind) ==
    /\ backup_file.state = "ok"
    /\ backup_file' = [state |-> kind, data |-> <<>>]
    /\ op' = [name |-> "fault", id |-> NoId]
    /\ ret' = Returned(NoId)
    /\ events' = <<>>
    /\ UNCHANGED <<queue, current, queue_file, nextId, now, pendingOrder, retried,
                   listeners, delivered, sched, exported>>

\* time passes between two calls of datetime.now()
Tick ==
    /\ now < MaxClock
    /\ now' = now + 1
    /\ UNCHANGED <<queue, current, queue_file, backup_file, nextId, op, ret, events,
                   pendingOrder, retried,
                   listeners, delivered, sched, exported>>

Init ==
    /\ queue = <<>>
    /\ current = NoCurrent
    /\ queue_file = NoFile
    /\ backup_file = NoFile
    /\ nextId = 1
    /\ now = 1
    /\ op = [name |-> "__init__", id |-> NoId]
    /\ ret = Returned(NoId)
    /\ events = <<>>
    /\ pendingOrder = <<>>
    /\ retried = [i \in 1..(MaxItems + 1) |-> 0]
    /\ listeners = <<>>
    /\ delivered = <<>>
    /\ sched = [lock |-> 0, pc |-> [c \in Callers |-> "idle"]]
    /\ exported = [download_queue |-> <<>>, shared |-> TRUE, current_download |-> NoCurrent]

is_processing == current # NoCurrent

PendingItems == SelectSeq(queue, LAMBDA it : it.status = "PENDING")

Item(id) == queue[_find_item(queue, id)]

----------------------------------------------------------------------------
(* Specification of add_item alone: any sequence of additions, at any time *)

AddAny == \E p \in Priority : add_item(1, p, 3, "ok")

NextAdd == AddAny \/ Tick

SpecAdd == Init /\ [][NextAdd]_vars

\* C1: after any sequence of add_item calls the pending items, read in collection
\* order, are sorted by priority descending (urgent > high > normal > low) and items
\* of equal priority appear in the order they were added (ids are handed out in
\* the order of the additions).
C1_PendingSortedFifo ==
    \A i, j \in DOMAIN PendingItems :
        i < j =>
            \/ priority_order(PendingItems[i].priority) > priority_order(PendingItems[j].priority)
            \/ /\ PendingItems[i].priority = PendingItems[j].priority
               /\ PendingItems[i].id < PendingItems[j].id
----------------------------------------------------------------------------
(* Specification of scheduling: additions, selections, and the worker's reports *)

ItemIds == 1..MaxItems

AddSched == \E p \in {"LOW", "NORMAL", "HIGH"} : add_item(1, p, 3, "ok")

GetNext == get_next_item("ok")

Report == \E id \in ItemIds, st \in {"COMPLETED", "FAILED"} :
              update_item_status(id, st, NoError, NoProgress, "ok")

NextSched == AddSched \/ GetNext \/ Report

SpecSched == Init /\ [][NextSched]_vars

\* x is no later than y in the order the pending items became pending
PendingBefore(x, y) ==
    \E i, j \in DOMAIN pendingOrder :
        pendingOrder[i] = x /\ pendingOrder[j] = y /\ i <= j

\* C2: whenever get_next_item returns an item, that item had the highest priority
\* of all items pending just before the call and, among the pending items of that
\* priority, was the one that became pending earliest.
C2_NextIsBestOldest ==
    [][(op'.name = "get_next_item" /\ ret' # Returned(NoId)) =>
          LET x == Item(ret'.value)
          IN /\ x.status = "PENDING"
             /\ \A i \in DOMAIN PendingItems :
                   /\ priority_order(PendingItems[i].priority) <= priority_order(x.priority)
                   /\ PendingItems[i].priority = x.priority
                         => PendingBefore(x.id, PendingItems[i].id)]_vars

Downloading == {i \in DOMAIN queue : queue[i].status = "DOWNLOADING"}

\* C3: in every reachable state at most one item has status downloading.
C3_AtMostOneDownloading == Cardinality(Downloading) <= 1

\* C4: for every item X returned by get_next_item, is_processing() is true in every
\* state from that return until update_item_status moves X to completed, failed
\* or cancelled.  Under SpecSched an item is downloading exactly from the moment
\* get_next_item returns it until the worker reports it completed or failed.
C4_ProcessingWhileInFlight == Downloading # {} => is_processing

----------------------------------------------------------------------------
(* Specification of startup: the store and its backup, faults, and construction *)

FileFaults == {"absent", "unreadable", "corrupt"}

AddStored == \E p \in {"NORMAL", "HIGH"}, wr \in WriteOutcomes :
                 nextId <= MaxJobs /\ add_item(1, p, 3, wr)

TakeStored == get_next_item("ok")

ReportStored == \E id \in 1..MaxJobs :
                    update_item_status(id, "COMPLETED", NoError, NoProgress, "ok")

LoseQueueFile == \E kind \in FileFaults : QueueFileFault(kind)

LoseBackupFile == \E kind \in FileFaults : BackupFileFault(kind)

NextLoad ==
    \/ AddStored
    \/ TakeStored
    \/ ReportStored
    \/ Backup
    \/ LoseQueueFile
    \/ LoseBackupFile
    \/ Construct

SpecLoad == Init /\ [][NextLoad]_vars

\* the copy the specification says a starting manager reads: the primary store, and
\* the backup when the primary is absent, unreadable or corrupt
LoadSource ==
    IF queue_file.state = "ok" THEN queue_file
    ELSE IF backup_file.state = "ok" THEN backup_file
    ELSE NoFile

JustLoaded == op.name = "__init__"

\* C5: a manager that has just loaded its collection holds no item with status
\* downloading, whichever source it came from: every item stored as downloading is
\* observed as pending with started_at unset, and is_processing() is false.
C5_LoadedNothingDownloading ==
    JustLoaded =>
        /\ Downloading = {}
        /\ ~is_processing
        /\ \A k \in DOMAIN LoadSource.data :
              LoadSource.data[k].status = "downloading" =>
                  \E i \in DOMAIN queue :
                      /\ queue[i].id = LoadSource.data[k].id
                      /\ queue[i].status = "PENDING"
                      /\ queue[i].started_time = NoTime

\* a collection with its downloading items put back to pending
Normalized(q) ==
    [i \in DOMAIN q |->
        IF q[i].status = "DOWNLOADING"
        THEN [q[i] EXCEPT !.status = "PENDING", !.started_time = NoTime]
        ELSE q[i]]

\* C6: at startup, when the primary store is absent, unreadable or corrupt, the
\* manager holds the collection of the backup copy when that copy is loadable, and
\* an empty collection only when the backup is unavailable too.
C6_FallsBackToBackup ==
    (JustLoaded /\ queue_file.state \in FileFaults) =>
        IF backup_file.state = "ok"
        THEN Normalized(queue) = Normalized(ParseFile(backup_file))
        ELSE queue = <<>>
----------------------------------------------------------------------------
(* Specification of the item lifecycle: every status update, retry and removal *)

\* the max_retries items are added with
MaxRetries == 1

\* ids a caller may name: those handed out, and one that never is
CallerIds == 1..(MaxLifeItems + 1)

\* (status, error_message, progress) of the update_item_status calls
UpdateInputs ==
    {<<"COMPLETED", NoError, NoProgress>>, <<"FAILED", "boom", 150>>,
     <<"CANCELLED", NoError, NoProgress>>, <<"PENDING", NoError, NoProgress>>}

AddItem == nextId <= MaxLifeItems /\ add_item(1, "NORMAL", MaxRetries, "ok")

GetNextItem == get_next_item("ok")

UpdateItemStatus ==
    \E id \in CallerIds, u \in UpdateInputs : update_item_status(id, u[1], u[2], u[3], "ok")

RetryItem == \E id \in CallerIds, wr \in WriteOutcomes : retry_item(id, wr)

RemoveItem == \E id \in CallerIds : remove_item(id, "ok")

Next ==
    \/ AddItem
    \/ GetNextItem
    \/ UpdateItemStatus
    \/ RetryItem
    \/ RemoveItem

Spec == Init /\ [][Next]_vars

ItemIn(q, id) == q[_find_item(q, id)]
\* C7: an item's status only ever changes along pending -> downloading,
\* downloading -> completed | failed | cancelled, and failed -> pending through
\* retry_item while retry_count < max_retries; a completed, cancelled or exhausted
\* failed item never changes status again.
C7_StatusTransitions ==
    [][\A id \in Ids(queue) \cap Ids(queue') :
          LET a == ItemIn(queue, id)
              b == ItemIn(queue', id)
          IN a.status # b.status =>
                \/ a.status = "PENDING" /\ b.status = "DOWNLOADING"
                \/ a.status = "DOWNLOADING" /\ b.status \in TerminalStatus
                \/ /\ a.status = "FAILED" /\ b.status = "PENDING"
                   /\ op'.name = "retry_item"
                   /\ a.retry_count < a.max_retries]_vars

\* what C8 says of a retry_item(id) call that takes the manager from (q, cur, f) to
\* (q2, cur2, f2) and returns r
RetryContract(id, q, cur, f, q2, cur2, f2, r) ==
    LET i == _find_item(q, id)
    IN IF i = 0 \/ q[i].status # "FAILED" \/ q[i].retry_count >= q[i].max_retries
       THEN r = ReturnedBool(FALSE) /\ q2 = q /\ cur2 = cur /\ f2 = f
       ELSE /\ r = ReturnedBool(TRUE)
            /\ id \in Ids(q2)
            /\ ItemIn(q2, id) = [q[i] EXCEPT !.status = "PENDING",
                                            !.retry_count = q[i].retry_count + 1,
                                            !.error_message = NoError,
                                            !.progress = 0,
                                            !.started_time = NoTime,
                                            !.completed_time = NoTime]

\* C8: retry_item(id) returns false and leaves the collection, the item, the
\* active-item marker and the store unchanged whenever the item is missing, not
\* failed, or has retry_count >= max_retries; otherwise it returns true, sets the
\* status to pending, adds exactly 1 to retry_count and unsets error_detail,
\* progress, started_at and completed_at.
C8_RetryItemContract ==
    [][op'.name = "retry_item" =>
          RetryContract(op'.id, queue, current, queue_file,
                        queue', current', queue_file', ret')]_vars

\* a retry that succeeded on an item that carried an error, progress and both stamps
C8_Witness ==
    /\ op.name = "retry_item"
    /\ ret = ReturnedBool(TRUE)
    /\ \E i \in DOMAIN queue : queue[i].id = op.id /\ queue[i].retry_count = 1

\* C9: in every reachable state retry_count <= max_retries for every item, and the
\* number of retry_item calls that returned true for an item is at most its
\* max_retries.
C9_RetriesBounded ==
    \A i \in DOMAIN queue :
        /\ queue[i].retry_count <= queue[i].max_retries
        /\ retried[queue[i].id] <= queue[i].max_retries

\* the scenario: the item failed, was retried max_retries times, failed again, and
\* the next retry_item returned false
C9_Witness ==
    /\ op.name = "retry_item"
    /\ ret = ReturnedBool(FALSE)
    /\ \E i \in DOMAIN queue :
          /\ queue[i].id = op.id
          /\ queue[i].status = "FAILED"
          /\ queue[i].max_retries >= 1
          /\ retried[queue[i].id] = queue[i].max_retries

----------------------------------------------------------------------------
(* Specification of retry placement: the worker's protocol with two priorities *)

AddJob == \E p \in {"LOW", "NORMAL", "HIGH"} : nextId <= MaxJobs /\ add_item(1, p, 1, "ok")

TakeJob == get_next_item("ok")

FailJob == \E id \in 1..MaxJobs : update_item_status(id, "FAILED", "boom", NoProgress, "ok")

RetryJob == \E id \in 1..MaxJobs : retry_item(id, "ok")

NextRetry == AddJob \/ TakeJob \/ FailJob \/ RetryJob

SpecRetry == Init /\ [][NextRetry]_vars

\* C10: after a successful retry_item the retried item stands, among the pending
\* items, after every pending item of the same or higher priority and before every
\* pending item of lower priority.
C10_RetriedAtTailOfPriority ==
    [][(op'.name = "retry_item" /\ ret' = ReturnedBool(TRUE)) =>
          LET k == _find_item(queue', op'.id)
          IN \A j \in DOMAIN queue' :
                (j # k /\ queue'[j].status = "PENDING") =>
                    IF priority_order(queue'[j].priority) >= priority_order(queue'[k].priority)
                    THEN j < k
                    ELSE k < j]_vars

----------------------------------------------------------------------------
(* The store after a call *)

\* the calls that change the collection or the marker
MutatingOps == {"add_item", "get_next_item", "update_item_status", "retry_item",
                "remove_item", "clear_user_queue"}

\* the items the primary store holds (none before the first write)
StoredItems == IF queue_file.state = "ok" THEN ParseFile(queue_file) ELSE <<>>

\* C11: after every mutating operation returns, with persistence enabled and the
\* write succeeding, the primary store holds exactly the in-memory collection (same
\* items, same field values, same order), so a manager constructed at that moment
\* loads the in-memory collection with its downloading items turned to pending.
C11_StoreMirrorsMemory ==
    op.name \in MutatingOps =>
        /\ queue_file.state \in {"ok", "absent"}
        /\ StoredItems = queue
        /\ _load_queue = Normalized(queue)

----------------------------------------------------------------------------
(* Specification of the item codec: a collection of two items, the first in any
   status, priority and download type, is saved and loaded again *)

\* the fields update_item_status and get_next_item leave on an item of status st
ItemInStatus(item, st) ==
    [item EXCEPT !.status = st,
                 !.started_time = IF st = "DOWNLOADING" THEN 1 ELSE NoTime,
                 !.completed_time = IF st \in TerminalStatus THEN 1 ELSE NoTime,
                 !.error_message = IF st = "FAILED" THEN "boom" ELSE NoError]

\* the items add_item and the status updates produce for id 1
CodecItems ==
    {ItemInStatus([NewItem(1, 1, p, 1) EXCEPT !.download_type = d, !.created_time = 1], st) :
        p \in Priority, d \in DownloadType, st \in QueueStatus}

InitCodec ==
    /\ now = 1
    /\ queue_file = NoFile
    /\ backup_file = NoFile
    /\ nextId = 3
    /\ op = [name |-> "add_item", id |-> 2]
    /\ ret = Returned(2)
    /\ events = <<>>
    /\ retried = [i \in 1..(MaxItems + 1) |-> 0]
    /\ listeners = <<>>
    /\ delivered = <<>>
    /\ sched = [lock |-> 0, pc |-> [c \in Callers |-> "idle"]]
    /\ \E first \in CodecItems, p \in Priority :
          /\ queue = <<first, [NewItem(2, 2, p, 1) EXCEPT !.created_time = 1]>>
          /\ current = IF first.status = "DOWNLOADING"
                       THEN [id |-> first.id, chat_id |-> first.chat_id] ELSE NoCurrent
          /\ pendingOrder = IF first.status = "PENDING" THEN <<1, 2>> ELSE <<2>>
          /\ exported = [download_queue |-> queue, shared |-> TRUE,
                          current_download |-> NoCurrent]

SaveQueue == save_queue("ok")

LoadSaved == queue_file.state = "ok" /\ Construct

NextCodec == SaveQueue \/ LoadSaved

SpecCodec == InitCodec /\ [][NextCodec]_vars

\* the ids of a list of items or of stored dictionaries, in list order
IdOrder(q) == [i \in DOMAIN q |-> q[i].id]

\* C12: to_dict followed by from_dict yields an item equal in every field (the
\* enums restored from their string values), and saving then loading a collection
\* preserves the number of items and their array order.
C12_RoundTrip ==
    /\ \A i \in DOMAIN queue : from_dict(to_dict(queue[i])) = queue[i]
    /\ op.name = "save_queue" =>
          /\ Len(queue_file.data) = Len(queue)
          /\ IdOrder(queue_file.data) = IdOrder(queue)
          /\ IdOrder(_load_queue) = IdOrder(queue)
    /\ JustLoaded => IdOrder(queue) = IdOrder(queue_file.data)

\* a collection was saved and loaded whose first item is completed, urgent, audio
C12_Witness ==
    /\ JustLoaded
    /\ Len(queue) = 2
    /\ queue[1].status = "COMPLETED"
    /\ queue[1].priority = "URGENT"
    /\ queue[1].download_type = "AUDIO"
    /\ queue[2].priority = "LOW"

----------------------------------------------------------------------------
(* Specification of clear_user_queue: two requesters add items, the items are
   taken and completed, writes may fail, and either requester's items are cleared *)

ChatIds == {1, 2}

\* a write that succeeds, or one that json.dump abandons
ClearWrites == {"ok", "dump_fail"}

AddFor == \E c \in ChatIds : nextId <= MaxClearItems /\ add_item(c, "NORMAL", 1, "ok")

TakeOne == get_next_item("ok")

Done ==
    \E id \in 1..MaxClearItems, wr \in ClearWrites :
        /\ id \in Ids(queue)
        /\ queue[_find_item(queue, id)].status = "DOWNLOADING"
        /\ update_item_status(id, "COMPLETED", NoError, NoProgress, wr)

ClearUser == \E c \in ChatIds, wr \in ClearWrites : clear_user_queue(c, wr)

NextClear == AddFor \/ TakeOne \/ Done \/ ClearUser

SpecClear == Init /\ [][NextClear]_vars

\* the items of q that chat_id did not request, in the order of q
OthersOf(q, chat_id) == SelectSeq(q, LAMBDA it : it.chat_id # chat_id)

\* the marker after clear_user_queue(chat_id): unset exactly when the active item was chat_id's
MarkerCleared(chat_id) ==
    current' = IF current # NoCurrent /\ current.chat_id = chat_id THEN NoCurrent ELSE current

Finished(q) == SelectSeq(q, LAMBDA it : it.status \in {"COMPLETED", "FAILED"})

C14_FullQueueRejects ==
    /\ [](Len(queue) <= max_queue_size)
    /\ [][(op'.name = "add_item" /\ Len(queue) >= max_queue_size) =>
              /\ op'.id = NoId
              /\ ret' = Raised(ValueError)
              /\ UNCHANGED <<queue, current, queue_file, backup_file>>
              /\ events' = <<>>
              /\ delivered' = <<>>]_vars

\* an addition was rejected while the collection was full and an item was active
C14_Witness ==
    /\ op.name = "add_item"
    /\ op.id = NoId
    /\ ret = Raised(ValueError)
    /\ Len(queue) = max_queue_size
    /\ is_processing

----------------------------------------------------------------------------
(* Calls that find nothing to do *)

\* the lifecycle with the writes succeeding, and the position query
ReportLookup ==
    \E id \in CallerIds, st \in {"COMPLETED", "FAILED"} :
        update_item_status(id, st, NoError, NoProgress, "ok")

RetryLookup == \E id \in CallerIds : retry_item(id, "ok")

GetQueuePosition == \E id \in CallerIds : get_queue_position(id)

NextLookup ==
    \/ AddItem
    \/ GetNextItem
    \/ ReportLookup
    \/ RetryLookup
    \/ RemoveItem
    \/ GetQueuePosition

SpecLookup == Init /\ [][NextLookup]_vars

\* the calls that look an item up by its id
LookupOps == {"update_item_status", "retry_item", "remove_item", "get_queue_position"}

\* the call left the collection, the marker and the store alone and delivered no event
NothingDone ==
    /\ UNCHANGED <<queue, current, queue_file, backup_file>>
    /\ events' = <<>>
    /\ delivered' = <<>>

\* C15: update_item_status, retry_item and remove_item called with an id that is not
\* in the collection return false, and get_queue_position returns -1; the collection,
\* the marker and the store are unchanged and no event is delivered.
C15_UnknownIdIsNoOp ==
    [][(op'.name \in LookupOps /\ op'.id \notin Ids(queue)) =>
          /\ ret' = IF op'.name = "get_queue_position" THEN Returned(-1)
                   ELSE ReturnedBool(FALSE)
          /\ NothingDone]_vars

\* remove_item was called with an unknown id while another item was active
C15_Witness ==
    /\ op.name = "remove_item"
    /\ op.id \notin Ids(queue)
    /\ ret = ReturnedBool(FALSE)
    /\ queue # <<>>
    /\ is_processing

----------------------------------------------------------------------------
(* Item and marker consistency *)

\* C16: in every reachable state and for every item, completed_time is set if and
\* only if the status is completed, failed or cancelled, whatever sequence of
\* get_next_item, update_item_status (with any target status) and retry_item led there.
C16_CompletedTimeIffTerminal ==
    \A i \in DOMAIN queue :
        (queue[i].completed_time # NoTime) <=> (queue[i].status \in TerminalStatus)

\* C17: whenever the marker is set, the marked item is a member of the collection
\* and its status is downloading; in particular the marker is unset once the active
\* item has been removed.
C17_MarkerIsDownloadingMember ==
    is_processing =>
        /\ current.id \in Ids(queue)
        /\ Item(current.id).status = "DOWNLOADING"

\* C18: get_next_item called when no item is pending returns nothing and leaves
\* is_processing(), the marker, every item and the store unchanged, and delivers
\* no event.
C18_NothingPendingIsNoOp ==
    [][(op'.name = "get_next_item" /\ PendingItems = <<>>) =>
          /\ ret' = Returned(NoId)
          /\ is_processing' = is_processing
          /\ NothingDone]_vars

\* get_next_item returned nothing while an item was active
C18_Witness ==
    /\ op.name = "get_next_item"
    /\ ret = Returned(NoId)
    /\ is_processing
    /\ queue # <<>>

----------------------------------------------------------------------------
(* Specification of concurrent callers: coroutines that call add_item,
   get_next_item and update_item_status and interleave at the await points, which
   are the entry of `async with self._lock` and the awaits of _notify_listeners *)

\* caller c is past `async with self._lock` and has not run the body yet
Holding(c) == sched.lock = c /\ sched.pc[c] = "locked"

\* `async with self._lock`: c enters when the lock is free
Acquire(c) ==
    /\ sched.pc[c] = "idle"
    /\ LockFree
    /\ sched' = [lock |-> c, pc |-> [sched.pc EXCEPT ![c] = "locked"]]
    /\ UNCHANGED <<queue, current, queue_file, backup_file, nextId, now, op, ret, events,
                   pendingOrder, retried, listeners, delivered, exported>>

\* the awaits of _notify_listeners are over: c leaves the `async with` block and returns
Release(c) ==
    /\ sched.pc[c] = "notifying"
    /\ sched' = [lock |-> IF sched.lock = c THEN 0 ELSE sched.lock,
                 pc |-> [sched.pc EXCEPT ![c] = "idle"]]
    /\ UNCHANGED <<queue, current, queue_file, backup_file, nextId, now, op, ret, events,
                   pendingOrder, retried, listeners, delivered, exported>>

\* the bodies: no await between the first read of _queue and the end of _save_queue
RunAdd(c) == Holding(c) /\ nextId <= MaxJobs /\ add_item(c, "NORMAL", 1, "ok")

RunGetNext(c) == Holding(c) /\ get_next_item("ok")

RunUpdate(c) ==
    /\ Holding(c)
    /\ \E id \in 1..MaxJobs : update_item_status(id, "COMPLETED", NoError, NoProgress, "ok")

NextLock ==
    \E c \in Callers :
        \/ Acquire(c)
        \/ RunAdd(c)
        \/ RunGetNext(c)
        \/ RunUpdate(c)
        \/ Release(c)

SpecLock == Init /\ [][NextLock]_vars

\* the callers between their first read of the collection and their return
Inside == {c \in Callers : sched.pc[c] # "idle"}

\* C19: mutating operations of concurrent callers take effect one at a time: from
\* the moment an operation first reads the collection until it has persisted and
\* delivered its events, no other operation reads or changes the collection or the
\* marker (at most one caller is inside an operation, and every change of the
\* collection, the marker or the store is the body of that caller).
C19_OneAtATime ==
    /\ [](Cardinality(Inside) <= 1)
    /\ [][<<queue, current, queue_file>>' # <<queue, current, queue_file>> =>
              \E c \in Callers :
                  /\ sched.pc[c] = "locked"
                  /\ sched'.pc[c] = "notifying"
                  /\ \A d \in Callers \ {c} : sched.pc[d] = "idle" /\ sched'.pc[d] = "idle"]_vars

\* caller 1 is delivering the events of a get_next_item that took the item caller 2 added
C19_Witness ==
    /\ sched.pc[1] = "notifying"
    /\ sched.lock = 1
    /\ op.name = "get_next_item"
    /\ current.chat_id = 2

\* ---------------------------------------------------------------------------
\* Listeners: registration and delivery of the lifecycle events
\* ---------------------------------------------------------------------------

\* the listener objects: who they are and whether their methods raise
Listeners == [name : 1..MaxListeners, raises : BOOLEAN]

AddListener ==
    \E l \in Listeners :
        /\ Len(listeners) < MaxListeners
        /\ add_listener(l)

RemoveListener ==
    \E l \in Listeners : remove_listener(l)

NotifyAdd ==
    /\ nextId <= MaxLifeItems
    /\ add_item(1, "NORMAL", 1, "ok")

NotifyTake == get_next_item("ok")

NotifyReport ==
    \E id \in 1..MaxLifeItems, st \in {"COMPLETED", "FAILED"} :
        update_item_status(id, st, NoError, NoProgress, "ok")

NextNotify ==
    \/ AddListener
    \/ RemoveListener
    \/ NotifyAdd
    \/ NotifyTake
    \/ NotifyReport

SpecNotify == Init /\ [][NextNotify]_vars

\* what a complete delivery of the events ev to the listeners ls awaits
RECURSIVE EveryListenerOnce(_, _)
EveryListenerOnce(ls, ev) ==
    IF ev = <<>> THEN <<>>
    ELSE [i \in DOMAIN ls |->
             [listener |-> ls[i].name, method |-> Head(ev)[1], id |-> Head(ev)[2]]]
         \o EveryListenerOnce(ls, Tail(ev))

\* C20: when an event is delivered, every registered listener is called once (per
\* registration), in registration order, also past a listener that raises, and the
\* triggering operation returns normally: nothing a listener raises reaches it, so
\* its result, the collection, the marker and the store are those of the body.
C20_DeliveryIsolated ==
    [][op'.name \in MutatingOps =>
          /\ delivered' = EveryListenerOnce(listeners, events')
          /\ events' # <<>> => "raised" \notin DOMAIN ret'
          /\ listeners' = listeners]_vars

\* an item was reported completed with two listeners registered, the first of which
\* raises: the second was still called, and the operation returned True
C20_Witness ==
    /\ op.name = "update_item_status"
    /\ ret = ReturnedBool(TRUE)
    /\ Len(listeners) = 2
    /\ listeners[1].raises
    /\ Len(delivered) = 2
    /\ delivered[2] = [listener |-> listeners[2].name, method |-> "on_item_completed", id |-> 1]

----------------------------------------------------------------------------
(* Completion events *)

\* item id is in the collection before and after the step and its status became st
ChangedInto(id, st) ==
    /\ id \in Ids(queue) \cap Ids(queue')
    /\ ItemIn(queue, id).status # st
    /\ ItemIn(queue', id).status = st

\* the call made the notification method_name for item id
Notified(method_name, id) == \E k \in DOMAIN events' : events'[k] = <<method_name, id>>

\* C21: item_completed (resp. item_failed) is delivered exactly when an item's
\* status changes into completed (resp. failed), once per such change and with
\* completed_time stamped by it; never for an update_item_status call that leaves
\* the item in the terminal status it already had.
C21_EventsOnTransition ==
    [][\A id \in CallerIds :
          /\ Notified("on_item_completed", id) <=> ChangedInto(id, "COMPLETED")
          /\ Notified("on_item_failed", id) <=> ChangedInto(id, "FAILED")
          /\ Notified("on_item_completed", id) \/ Notified("on_item_failed", id)
                => ItemIn(queue', id).completed_time = now]_vars

----------------------------------------------------------------------------
(* Specification of pruning: jobs are added, taken and reported completed or *)
(* failed while time passes; every write succeeds, so every call prunes      *)

\* ids handed out in the pruning specification
MaxPruneItems == 3

AddPruned == nextId <= MaxPruneItems /\ add_item(1, "NORMAL", 1, "ok")

TakePruned == get_next_item("ok")

ReportPruned ==
    \E st \in {"COMPLETED", "FAILED"} :
        /\ is_processing
        /\ update_item_status(current.id, st, NoError, NoProgress, "ok")

NextPrune ==
    \/ AddPruned
    \/ TakePruned
    \/ ReportPruned
    \/ Tick

SpecPrune == Init /\ [][NextPrune]_vars

\* the items the step removed; under SpecPrune only the pruning of _save_queue removes
Pruned == Ids(queue) \ Ids(queue')

\* item id as _save_queue saw it: the item of the call has the status and the
\* completion time the call gave it, every other item is as it was before the call
AtSave(id) ==
    IF id \in Ids(queue') THEN ItemIn(queue', id)
    ELSE IF op'.name = "update_item_status" /\ op'.id = id
    THEN [ItemIn(queue, id) EXCEPT
             !.status = IF Notified("on_item_completed", id) THEN "COMPLETED" ELSE "FAILED",
             !.completed_time = now]
    ELSE ItemIn(queue, id)

\* C22: store pruning removes only items whose status is completed or failed, never
\* a pending or downloading item, and every item it removes has a completion time
\* (creation time when absent) no later than that of every completed or failed
\* item it keeps.
C22_PrunesOldestFinished ==
    [][\A id \in Pruned :
          /\ AtSave(id).status \in {"COMPLETED", "FAILED"}
          /\ \A k \in DOMAIN queue' :
                queue'[k].status \in {"COMPLETED", "FAILED"}
                    => PruneKey(AtSave(id)) <= PruneKey(queue'[k])]_vars

\* a report pruned an item away: a pending item is still there, and the completed or
\* failed items kept are all more recent than the clock value of the first completion
C22_Witness ==
    /\ op.name = "update_item_status"
    /\ Len(queue) < nextId - 1
    /\ \E k \in DOMAIN queue : queue[k].status = "PENDING"
    /\ Cardinality({k \in DOMAIN queue : queue[k].status \in {"COMPLETED", "FAILED"}})
           = max_completed_items
    /\ \A k \in DOMAIN queue :
           queue[k].status \in {"COMPLETED", "FAILED"} => queue[k].completed_time > 1

\* C23: after any mutating operation with persistence enabled, neither the persisted
\* snapshot nor the in-memory collection contains more than max_completed_items
\* items whose status is completed or failed.
C23_CeilingKept ==
    op.name \in MutatingOps =>
        /\ Len(Finished(queue)) <= max_completed_items
        /\ Len(Finished(StoredItems)) <= max_completed_items

----------------------------------------------------------------------------
(* Specification of the retention cleanup: jobs are added, taken and reported *)
(* completed, failed or cancelled while time passes, and old ones cleaned up  *)

AddOld == nextId <= MaxJobs /\ add_item(1, "NORMAL", 1, "ok")

TakeOld == get_next_item("ok")

ReportOld ==
    \E st \in TerminalStatus :
        /\ is_processing
        /\ update_item_status(current.id, st, NoError, NoProgress, "ok")

CleanupOld == cleanup_old_items("ok")

NextCleanup ==
    \/ AddOld
    \/ TakeOld
    \/ ReportOld
    \/ Tick
    \/ CleanupOld

SpecCleanup == Init /\ [][NextCleanup]_vars

\* the items in a terminal status created before the retention cutoff
OldTerminal ==
    {queue[i].id : i \in {k \in DOMAIN queue :
        /\ queue[k].status \in TerminalStatus
        /\ queue[k].created_time < now - auto_cleanup_age}}

\* C24: cleanup_old_items removes exactly the items that are in a terminal status
\* (completed, failed or cancelled) and were created before the retention cutoff,
\* returns their number, and leaves every other item and the relative order of the
\* remaining items unchanged.
C24_CleanupRemovesOldTerminal ==
    [][op'.name = "cleanup_old_items" =>
          /\ queue' = RemoveIds(queue, OldTerminal)
          /\ ret' = Returned(Cardinality(OldTerminal))]_vars

----------------------------------------------------------------------------
(* Specification of the position query: jobs of two priorities are added,  *)
(* taken and reported, and callers ask for the position of any id          *)

\* ids handed out in the position specification
MaxPosItems == 3

AddPos ==
    \E p \in {"NORMAL", "HIGH"} :
        /\ nextId <= MaxPosItems
        /\ add_item(1, p, 1, "ok")

TakePos == get_next_item("ok")

ReportPos ==
    \E st \in {"COMPLETED", "FAILED"} :
        /\ is_processing
        /\ update_item_status(current.id, st, NoError, NoProgress, "ok")

AskPosition == \E id \in 1..(MaxPosItems + 1) : get_queue_position(id)

NextPosition ==
    \/ AddPos
    \/ TakePos
    \/ ReportPos
    \/ AskPosition

SpecPosition == Init /\ [][NextPosition]_vars

\* the number of pending items of q up to and including item id; 0 when id is
\* not a pending item of q
Rank(q, id) ==
    LET i == _find_item(q, id)
    IN IF i = 0 THEN 0
       ELSE IF q[i].status # "PENDING" THEN 0
       ELSE Cardinality({k \in 1..i : q[k].status = "PENDING"})

\* C25: get_queue_position(id) returns p >= 1 exactly when the item is pending, and
\* then the item is the one returned by the p-th of p successive get_next_item
\* calls; it returns -1 for an item that is not pending or not in the collection.
\* The p-th call is counted step by step: the answer is the item's rank, a
\* get_next_item call returns the item of rank 1 whenever there is a pending item,
\* and it lowers the rank of every other pending item by exactly one.
C25_PositionIsTurn ==
    /\ [][op'.name = "get_queue_position" =>
              ret' = Returned(IF Rank(queue, op'.id) = 0 THEN -1 ELSE Rank(queue, op'.id))]_vars
    /\ [][op'.name = "get_next_item" =>
              \A id \in 1..MaxPosItems :
                  /\ Rank(queue, id) = 1 => ret' = Returned(id)
                  /\ Rank(queue, id) > 1 => Rank(queue', id) = Rank(queue, id) - 1]_vars

\* a caller was told position 2 for an item that stands third in the list, behind
\* a downloading item and a pending one
C25_Witness ==
    /\ op.name = "get_queue_position"
    /\ ret = Returned(2)
    /\ _find_item(queue, op.id) = 3
    /\ queue[1].status = "DOWNLOADING"

----------------------------------------------------------------------------
(* Specification of failing writes: every save of every operation may fail *)

AddFaulty == \E wr \in WriteOutcomes : nextId <= MaxJobs /\ add_item(1, "NORMAL", 1, wr)

TakeFaulty == \E wr \in WriteOutcomes : get_next_item(wr)

ReportFaulty ==
    \E st \in {"COMPLETED", "FAILED"}, wr \in WriteOutcomes :
        /\ is_processing
        /\ update_item_status(current.id, st, NoError, NoProgress, wr)

RemoveFaulty == \E id \in 1..MaxJobs, wr \in WriteOutcomes : remove_item(id, wr)

NextFault ==
    \/ AddFaulty
    \/ TakeFaulty
    \/ ReportFaulty
    \/ RemoveFaulty

SpecFault == Init /\ [][NextFault]_vars

\* the status the update_item_status call of the step asked for
Reported(id) == IF Notified("on_item_completed", id) THEN "COMPLETED" ELSE "FAILED"

\* C26: when writing the store fails during a mutating operation, the operation
\* still returns its normal result and the in-memory change it made (item added,
\* status changed, item removed) stays in effect, so later operations work on the
\* in-memory collection.  Stated of every call, whatever its write did: nothing is
\* raised, an added item is in the collection and pending, a taken item is
\* downloading and marked, a reported item has the reported status (or was pruned
\* by the successful save), a removed item is gone.
C26_WriteFailureKeepsChange ==
    [][op'.name \in MutatingOps =>
          /\ "raised" \notin DOMAIN ret'
          /\ op'.name = "add_item" =>
                /\ ret' = Returned(nextId)
                /\ nextId \in Ids(queue')
                /\ ItemIn(queue', nextId).status = "PENDING"
          /\ op'.name = "get_next_item" =>
                /\ (ret' = Returned(NoId)) <=> (PendingItems = <<>>)
                /\ ret' # Returned(NoId) =>
                      /\ Rank(queue, ret'.value) = 1
                      /\ ItemIn(queue', ret'.value).status = "DOWNLOADING"
                      /\ current'.id = ret'.value
          /\ op'.name = "update_item_status" =>
                /\ ret' = ReturnedBool(op'.id \in Ids(queue))
                /\ op'.id \in Ids(queue') => ItemIn(queue', op'.id).status = Reported(op'.id)
                /\ op'.id \in Ids(queue) \ Ids(queue') => queue_file'.state = "ok"
          /\ op'.name = "remove_item" =>
                /\ ret' = ReturnedBool(op'.id \in Ids(queue))
                /\ op'.id \notin Ids(queue')]_vars

\* no write has ever succeeded, and yet two items were added, the first taken and
\* reported completed, the second taken
C26_Witness ==
    /\ queue_file.state = "absent"
    /\ op.name = "get_next_item"
    /\ ret = Returned(2)
    /\ Len(queue) = 2
    /\ queue[1].status = "COMPLETED"
    /\ queue[2].status = "DOWNLOADING"

----------------------------------------------------------------------------
(* Specification of the statistics: jobs of requesters 0 and 1 are added,   *)
(* taken and reported, and callers ask for the figures of any requester     *)

\* the requester ids of the statistics specification; 2 has no item
StatChats == {0, 1, 2}

AddStat ==
    \E c \in {0, 1} :
        /\ nextId <= MaxJobs
        /\ add_item(c, "NORMAL", 1, "ok")

TakeStat == get_next_item("ok")

\* a report whose write fails skips the pruning, so finished items accumulate
ReportStat ==
    \E st \in {"COMPLETED", "FAILED"}, wr \in ClearWrites :
        /\ is_processing
        /\ update_item_status(current.id, st, NoError, NoProgress, wr)

GetStatistics == \E r \in StatChats : get_statistics(r)

NextStats ==
    \/ AddStat
    \/ TakeStat
    \/ ReportStat
    \/ GetStatistics

SpecStats == Init /\ [][NextStats]_vars

\* the total and the per-status counts an answer of get_statistics reports, read
\* from the QueueStatistics object or from the dictionary of get_user_stats
Figures(s) ==
    IF "by_status" \in DOMAIN s
    THEN [total |-> s.total, pending |-> s.by_status["PENDING"],
          downloading |-> s.by_status["DOWNLOADING"],
          completed |-> s.by_status["COMPLETED"], failed |-> s.by_status["FAILED"]]
    ELSE [total |-> s.total, pending |-> s.pending, downloading |-> s.downloading,
          completed |-> s.completed, failed |-> s.failed]

\* C27: for every requester id r, 0 included, get_statistics(r) reports the total
\* and the per-status counts of exactly the items whose requester is r: the figures
\* the global computation gives on the collection filtered to r.
C27_StatsOfRequester ==
    [][op'.name = "get_statistics" =>
          Figures(ret'.stats)
              = Figures(_calculate_stats(SelectSeq(queue, LAMBDA it : it.chat_id = op'.id)))]_vars

\* C28: the success rate reported equals the number of completed items divided by
\* the number of completed plus failed items (1 when every processed item
\* completed), and is 0 when no item is completed or failed.
C28_SuccessRateIsFraction ==
    [][op'.name = "get_statistics" =>
          LET s == ret'.stats
              completed == Figures(s).completed
              failed == Figures(s).failed
          IN IF completed + failed > 0
             THEN s.success_rate.num * (completed + failed) = completed * s.success_rate.den
             ELSE s.success_rate.num = 0]_vars

\* C28 amended: the success rate reported equals 100 times the number of completed
\* items divided by the number of completed plus failed items (100 when every
\* processed item completed), and is 0 when no item is completed or failed.
C28_SuccessRateIsPercentage ==
    [][op'.name = "get_statistics" =>
          LET s == ret'.stats
              completed == Figures(s).completed
              failed == Figures(s).failed
          IN IF completed + failed > 0
             THEN s.success_rate.num * (completed + failed)
                      = 100 * completed * s.success_rate.den
             ELSE s.success_rate.num = 0]_vars

\* requester 1 was told a success rate of 50: one item completed, one failed
C28_Witness ==
    /\ op = [name |-> "get_statistics", id |-> 1]
    /\ ret.stats.completed = 1
    /\ ret.stats.failed = 1
    /\ ret.stats.success_rate = Ratio(100, 2)

----------------------------------------------------------------------------
(* Specification of error reporting: the worker reports the active item     *)
(* completed, failed or cancelled, with or without a message; failed items  *)
(* are retried                                                              *)

AddErr == nextId <= MaxJobs /\ add_item(1, "NORMAL", 1, "ok")

TakeErr == get_next_item("ok")

ReportErr ==
    \E st \in TerminalStatus, msg \in {NoError, "boom"} :
        /\ is_processing
        /\ update_item_status(current.id, st, msg, NoProgress, "ok")

RetryErr == \E id \in 1..MaxJobs : retry_item(id, "ok")

NextError ==
    \/ AddErr
    \/ TakeErr
    \/ ReportErr
    \/ RetryErr

SpecError == Init /\ [][NextError]_vars

\* C29: in every reachable state an item has an error_message only if its status is
\* failed: no sequence of update_item_status (with or without an error message,
\* towards any status) and retry_item leaves one on a pending, downloading,
\* completed or cancelled item.
C29_ErrorOnlyWhenFailed ==
    \A i \in DOMAIN queue :
        queue[i].error_message # NoError => queue[i].status = "FAILED"

----------------------------------------------------------------------------
(* The earlier queue of bottelegramvideo/queue_manager.py: the module-level *)
(* list download_queue, whose items take their id from the requester and    *)
(* the second of their creation                                             *)

\* additions the earlier queue holds at once in one behaviour
MaxLegacyItems == 3

\* QueueItem.__init__: the id is f"{chat_id}_{int(datetime.now().timestamp())}"
QueueItem(chat_id, priority) ==
    [id |-> <<chat_id, now>>, chat_id |-> chat_id, priority |-> priority,
     status |-> "pending", created_time |-> now, started_time |-> NoTime,
     completed_time |-> NoTime, error_message |-> NoError]

\* save_queue of the earlier module: the list is dumped; a failure is only logged
LegacySavedFile(q, wr) ==
    IF wr = "ok" THEN [state |-> "ok", data |-> q]
    ELSE IF wr = "dump_fail" THEN [state |-> "corrupt", data |-> <<>>]
    ELSE queue_file

\* what a call of the earlier module leaves: the list, the file, the call
LegacyFinish(name, q2, wr) ==
    /\ queue' = q2
    /\ queue_file' = LegacySavedFile(q2, wr)
    /\ op' = [name |-> name, id |-> NoId]
    /\ ret' = Returned(NoId)
    /\ events' = <<>>
    /\ delivered' = <<>>
    /\ UNCHANGED <<current, backup_file, nextId, now, pendingOrder, retried, listeners, sched, exported>>

\* add_to_queue: a high priority item goes first, any other last
add_to_queue(chat_id, priority, wr) ==
    LET item == QueueItem(chat_id, priority)
    IN LegacyFinish("add_to_queue",
                    IF priority = "high" THEN <<item>> \o queue ELSE Append(queue, item), wr)

\* remove_from_queue: every item whose id is item_id is dropped
remove_from_queue(item_id, wr) ==
    LegacyFinish("remove_from_queue", SelectSeq(queue, LAMBDA it : it.id # item_id), wr)

AddToQueue ==
    \E c \in ChatIds, p \in {"normal", "high"} :
        /\ Len(queue) < MaxLegacyItems
        /\ add_to_queue(c, p, "ok")

RemoveFromQueue ==
    \E c \in ChatIds, t \in 1..MaxClock : remove_from_queue(<<c, t>>, "ok")

NextLegacy ==
    \/ AddToQueue
    \/ RemoveFromQueue
    \/ Tick

SpecLegacy == Init /\ [][NextLegacy]_vars

\* C30: no two items of the collection ever share an id, for any sequence of
\* additions, including several additions by the same requester at the same clock
\* value; an id-keyed removal therefore removes at most one item.
C30_IdsUnique ==
    /\ [](\A i, j \in DOMAIN queue : queue[i].id = queue[j].id => i = j)
    /\ [][op'.name = "remove_from_queue" => Len(queue') >= Len(queue) - 1]_vars

----------------------------------------------------------------------------
(* Specification of the names exported for compatibility: items are added,
   taken and completed, and a requester's items or the completed items are
   cleared, while the module-level names are read *)

MaxExportItems == 3

ExportAdd == \E c \in ChatIds : nextId <= MaxExportItems /\ add_item(c, "NORMAL", 1, "ok")

ClearCompleted ==
    \E c \in ChatIds \cup {NoChat}, wr \in ClearWrites : clear_completed_items(c, wr)

NextExport == ExportAdd \/ TakeOne \/ Done \/ ClearUser \/ ClearCompleted

SpecExport == Init /\ [][NextExport]_vars

\* C37: after any sequence of operations the exported names download_queue and
\* current_download denote the manager's collection and its active item
C37_ExportedNamesTrack ==
    /\ exported.download_queue = queue
    /\ exported.current_download = current

----------------------------------------------------------------------------
\* C36: a periodic or shutdown backup never replaces a loadable backup file with
\* content that cannot be loaded
C36_BackupStaysLoadable ==
    [][(op'.name = "_create_backup" /\ backup_file.state = "ok")
          => backup_file'.state = "ok"]_vars

----------------------------------------------------------------------------
(* Specification of a restart: items of two priorities are added, taken, reported
   and retried, each write succeeds or is abandoned by json.dump, and at any point
   between two operations the process stops and a new manager is constructed *)

MaxRestartItems == 2

RestartAdd ==
    \E p \in {"NORMAL", "HIGH"}, wr \in ClearWrites :
        nextId <= MaxRestartItems /\ add_item(1, p, 1, wr)

RestartTake == \E wr \in ClearWrites : get_next_item(wr)

RestartReport ==
    \E st \in {"COMPLETED", "FAILED"}, wr \in ClearWrites :
        is_processing /\ update_item_status(current.id, st, NoError, NoProgress, wr)

RestartRetry ==
    \E id \in 1..MaxRestartItems, wr \in ClearWrites :
        /\ id \in Ids(queue)
        /\ queue[_find_item(queue, id)].status = "FAILED"
        /\ retry_item(id, wr)

NextRestart == RestartAdd \/ RestartTake \/ RestartReport \/ RestartRetry \/ Construct

SpecRestart == Init /\ [][NextRestart]_vars

\* the items of q that are pending or downloading, in the order of q
Live(q) == SelectSeq(q, LAMBDA it : it.status \in {"PENDING", "DOWNLOADING"})

\* C35: when the last write succeeded (the store is what that write left) and a new
\* manager is constructed, every item that was pending or downloading in memory is in
\* the loaded collection with status pending, in the same relative order
C35_LiveItemsSurviveRestart ==
    [][(op'.name = "__init__" /\ queue_file.state = "ok") =>
          LET live == Live(queue)
              back == SelectSeq(queue', LAMBDA it : it.id \in Ids(live))
          IN /\ IdOrder(back) = IdOrder(live)
             /\ \A i \in DOMAIN back : back[i].status = "PENDING"]_vars

\* a manager was constructed over a store that records a downloading item and a
\* pending one: both are pending in the loaded collection
C35_Witness ==
    /\ op.name = "__init__"
    /\ queue_file.state = "ok"
    /\ \E i, j \in DOMAIN queue_file.data :
          /\ queue_file.data[i].status = "pending"
          /\ queue_file.data[j].status = "downloading"
    /\ Len(Live(queue)) >= 2
    /\ \A i \in DOMAIN queue : queue[i].status \in {"PENDING", "COMPLETED", "FAILED"}

----------------------------------------------------------------------------
(* Specification of a listener that calls back into the manager: coroutines call
   add_item, get_next_item, update_item_status and retry_item, and the registered
   listener's on_item_failed calls retry_item for the failed item while the
   operation that delivers the event still holds the lock.  sched.depth[c] counts
   the calls of coroutine c that have not returned: 1 in a call made by the
   coroutine, 2 in the call its listener makes during the delivery *)

\* the listener registered in this specification; its on_item_failed calls retry_item
RetryingListener == [name |-> 1, raises |-> FALSE]

InitReenter ==
    /\ queue = <<>>
    /\ current = NoCurrent
    /\ queue_file = NoFile
    /\ backup_file = NoFile
    /\ nextId = 1
    /\ now = 1
    /\ op = [name |-> "__init__", id |-> NoId]
    /\ ret = Returned(NoId)
    /\ events = <<>>
    /\ pendingOrder = <<>>
    /\ retried = [i \in 1..(MaxItems + 1) |-> 0]
    /\ listeners = <<RetryingListener>>
    /\ delivered = <<>>
    /\ sched = [lock |-> 0, pc |-> [c \in Callers |-> "idle"],
                depth |-> [c \in Callers |-> 0]]
    /\ exported = [download_queue |-> <<>>, shared |-> TRUE, current_download |-> NoCurrent]

\* a coroutine calls a mutating operation and reaches its `async with self._lock`
Call(c) ==
    /\ sched.pc[c] = "idle"
    /\ sched' = [sched EXCEPT !.pc[c] = "waiting", !.depth[c] = 1]
    /\ UNCHANGED <<queue, current, queue_file, backup_file, nextId, now, op, ret, events,
                   pendingOrder, retried, listeners, delivered, exported>>

\* asyncio.Lock.acquire: the call goes on when the lock is not held, by whichever
\* coroutine; a lock held by the waiting coroutine itself is held all the same
Enter(c) ==
    /\ sched.pc[c] = "waiting"
    /\ LockFree
    /\ sched' = [sched EXCEPT !.lock = c, !.pc[c] = "locked"]
    /\ UNCHANGED <<queue, current, queue_file, backup_file, nextId, now, op, ret, events,
                   pendingOrder, retried, listeners, delivered, exported>>

\* the body of the call, up to its `await self._notify_listeners`
Body(c) ==
    /\ Holding(c)
    /\ \/ nextId <= MaxJobs /\ add_item(c, "NORMAL", 1, "ok")
       \/ get_next_item("ok")
       \/ \E st \in {"COMPLETED", "FAILED"} :
             is_processing /\ update_item_status(current.id, st, NoError, NoProgress, "ok")
       \/ \E id \in 1..MaxJobs : retry_item(id, "ok")

\* on_item_failed of the listener is awaited and calls retry_item, which reaches
\* `async with self._lock` inside the `async with self._lock` of the notifying call
ListenerCalls(c) ==
    /\ sched.pc[c] = "notifying"
    /\ sched.depth[c] = 1
    /\ \E i \in DOMAIN delivered :
          /\ delivered[i].listener = RetryingListener.name
          /\ delivered[i].method = "on_item_failed"
    /\ sched' = [sched EXCEPT !.pc[c] = "waiting", !.depth[c] = 2]
    /\ UNCHANGED <<queue, current, queue_file, backup_file, nextId, now, op, ret, events,
                   pendingOrder, retried, listeners, delivered, exported>>

\* the awaits of _notify_listeners are over: the call leaves its `async with` block,
\* which releases the lock, and returns to the coroutine or to the listener
Leave(c) ==
    /\ sched.pc[c] = "notifying"
    /\ sched' = [sched EXCEPT !.lock = 0,
                              !.pc[c] = IF sched.depth[c] = 1 THEN "idle" ELSE "notifying",
                              !.depth[c] = @ - 1]
    /\ UNCHANGED <<queue, current, queue_file, backup_file, nextId, now, op, ret, events,
                   pendingOrder, retried, listeners, delivered, exported>>

NextReenter ==
    \E c \in Callers :
        \/ Call(c)
        \/ Enter(c)
        \/ Body(c)
        \/ ListenerCalls(c)
        \/ Leave(c)

\* the event loop runs every coroutine that can run, and asyncio.Lock wakes its
\* waiters in turn; nothing obliges a coroutine to make a call or a listener to retry
SpecReenter ==
    /\ InitReenter
    /\ [][NextReenter]_vars
    /\ \A c \in Callers :
          /\ SF_vars(Enter(c))
          /\ WF_vars(Body(c))
          /\ WF_vars(Leave(c))

\* C34: every call of a mutating operation eventually returns and releases the
\* lock, also when a listener calls a mutating operation during the delivery
C34_CallsReturn ==
    /\ \A c \in Callers : (sched.pc[c] # "idle") ~> (sched.pc[c] = "idle")
    /\ (sched.lock # 0) ~> (sched.lock = 0)

----------------------------------------------------------------------------
(* Specification of the worker loop of bottelegramvideo/bot.py: handlers add an
   item, await the edit of their message and start process_download_queue when
   is_queue_processing() is false; each started task runs the loop.  The
   coroutines interleave at their awaits.  sched.hpc is where each handler is,
   sched.wpc where each task is, sched.witem the item object each task holds;
   current is the global current_download.  serial stands for the identity of the
   item object, which the loop holds by reference *)

MaxWorkItems == 2

MaxWorkers == 2

Handlers == 1..MaxCallers

Workers == 1..MaxWorkers

\* QueueItem.__init__ of bot.py
BotItem(chat_id) ==
    [serial |-> nextId, id |-> <<chat_id, now>>, chat_id |-> chat_id, priority |-> "normal",
     status |-> "pending", started_time |-> NoTime, completed_time |-> NoTime,
     error_message |-> NoError]

InitWorker ==
    /\ queue = <<>>
    /\ current = NoCurrent
    /\ queue_file = NoFile
    /\ backup_file = NoFile
    /\ nextId = 1
    /\ now = 1
    /\ op = [name |-> "load_queue", id |-> NoId]
    /\ ret = Returned(NoId)
    /\ events = <<>>
    /\ pendingOrder = <<>>
    /\ retried = [i \in 1..(MaxItems + 1) |-> 0]
    /\ listeners = <<>>
    /\ delivered = <<>>
    /\ sched = [hpc |-> [h \in Handlers |-> "idle"],
                wpc |-> [w \in Workers |-> "none"],
                witem |-> [w \in Workers |-> 0]]
    /\ exported = [download_queue |-> <<>>, shared |-> TRUE, current_download |-> NoCurrent]

\* what a step of a handler or of the loop leaves: the list, save_queue() when the
\* step calls it, current_download, and where the coroutines are
BotStep(name, who, q2, saved, cur2, sched2) ==
    /\ queue' = q2
    /\ queue_file' = IF saved THEN LegacySavedFile(q2, "ok") ELSE queue_file
    /\ current' = cur2
    /\ sched' = sched2
    /\ op' = [name |-> name, id |-> who]
    /\ UNCHANGED <<backup_file, now, ret, events, pendingOrder, retried, listeners,
                   delivered, exported>>

\* the item object of serial s with its status and error_message set
Marked(q, s, st, err) ==
    [i \in DOMAIN q |->
        IF q[i].serial = s THEN [q[i] EXCEPT !.status = st, !.error_message = err]
        ELSE q[i]]

\* get_next_queue_item of bot.py: the first item whose status is 'pending'; 0 for None
FirstPending(q) ==
    IF \E i \in DOMAIN q : q[i].status = "pending"
    THEN q[CHOOSE i \in DOMAIN q :
               /\ q[i].status = "pending"
               /\ \A j \in 1..(i - 1) : q[j].status # "pending"].serial
    ELSE 0

\* the handler: item = await add_to_queue(...), up to `await query.edit_message_text`
HandlerAdds(h) ==
    /\ sched.hpc[h] = "idle"
    /\ nextId <= MaxWorkItems
    /\ nextId' = nextId + 1
    /\ BotStep("add_to_queue", h, Append(queue, BotItem(h)), TRUE, current,
               [sched EXCEPT !.hpc[h] = "added"])

\* the handler resumes: `if not is_queue_processing(): asyncio.create_task(...)`
HandlerStarts(h) ==
    /\ sched.hpc[h] = "added"
    /\ UNCHANGED nextId
    /\ IF is_processing
       THEN BotStep("queue_add", h, queue, FALSE, current, [sched EXCEPT !.hpc[h] = "idle"])
       ELSE \E w \in Workers :
               /\ sched.wpc[w] = "none"
               /\ \A v \in Workers : v < w => sched.wpc[v] # "none"
               /\ BotStep("queue_add", h, queue, FALSE, current,
                          [sched EXCEPT !.hpc[h] = "idle", !.wpc[w] = "created"])

\* the loop, from `item = await get_next_queue_item()` to the first send_message,
\* or to its end when nothing is pending
WorkerTakes(w) ==
    /\ sched.wpc[w] \in {"created", "loop"}
    /\ UNCHANGED nextId
    /\ LET s == FirstPending(queue)
       IN IF s = 0
          THEN BotStep("process_download_queue", w, queue, FALSE, NoCurrent,
                       [sched EXCEPT !.wpc[w] = "none", !.witem[w] = 0])
          ELSE LET at == CHOOSE i \in DOMAIN queue : queue[i].serial = s
                   q2 == [queue EXCEPT ![at].status = "downloading", ![at].started_time = now]
               IN BotStep("process_download_queue", w, q2, TRUE,
                          [id |-> s, chat_id |-> queue[at].chat_id],
                          [sched EXCEPT !.wpc[w] = "announcing", !.witem[w] = s])

\* what an awaited send_message does
SendOutcomes == {"sent", "raised"}

\* what an awaited execute_..._download does
JobOutcomes == {"success", "failure", "raised"}

\* `await context.bot.send_message(... Download iniciado ...)`, outside the inner try:
\* when it raises, the outer except unsets current_download and leaves the loop
WorkerAnnounces(w) ==
    /\ sched.wpc[w] = "announcing"
    /\ UNCHANGED nextId
    /\ \E o \in SendOutcomes :
          IF o = "sent"
          THEN BotStep("send_message", w, queue, FALSE, current,
                       [sched EXCEPT !.wpc[w] = "executing"])
          ELSE BotStep("send_message", w, queue, FALSE, NoCurrent,
                       [sched EXCEPT !.wpc[w] = "none", !.witem[w] = 0])

\* the download and the status it leads to, up to the send_message that reports it
WorkerExecutes(w) ==
    /\ sched.wpc[w] = "executing"
    /\ UNCHANGED nextId
    /\ \E r \in JobOutcomes :
          LET s == sched.witem[w]
          IN IF r = "success"
             THEN BotStep("execute", w,
                          [i \in DOMAIN queue |->
                              IF queue[i].serial = s
                              THEN [queue[i] EXCEPT !.status = "completed", !.completed_time = now]
                              ELSE queue[i]],
                          FALSE, current, [sched EXCEPT !.wpc[w] = "reporting"])
             ELSE IF r = "failure"
             THEN BotStep("execute", w, Marked(queue, s, "failed", "Falha no download"),
                          FALSE, current, [sched EXCEPT !.wpc[w] = "reporting"])
             ELSE BotStep("execute", w, Marked(queue, s, "failed", "raised"),
                          FALSE, current, [sched EXCEPT !.wpc[w] = "reporting_error"])

\* the send_message that reports the result: one that raises inside the try leads to
\* the inner except, which marks the item failed and sends again; one that raises
\* inside the except leaves through finally to the outer except
WorkerReports(w) ==
    /\ sched.wpc[w] \in {"reporting", "reporting_error"}
    /\ UNCHANGED nextId
    /\ \E o \in SendOutcomes :
          IF o = "sent"
          THEN BotStep("send_message", w, queue, TRUE, current,
                       [sched EXCEPT !.wpc[w] = "sleeping"])
          ELSE IF sched.wpc[w] = "reporting"
          THEN BotStep("send_message", w, Marked(queue, sched.witem[w], "failed", "raised"),
                       FALSE, current, [sched EXCEPT !.wpc[w] = "reporting_error"])
          ELSE BotStep("send_message", w, queue, TRUE, current,
                       [sched EXCEPT !.wpc[w] = "sleeping_raised"])

\* `await asyncio.sleep(2)` in finally is over: the loop goes round, or the pending
\* exception reaches the outer except
WorkerSleeps(w) ==
    /\ sched.wpc[w] \in {"sleeping", "sleeping_raised"}
    /\ UNCHANGED nextId
    /\ IF sched.wpc[w] = "sleeping"
       THEN BotStep("sleep", w, queue, FALSE, current, [sched EXCEPT !.wpc[w] = "loop"])
       ELSE BotStep("sleep", w, queue, FALSE, NoCurrent,
                    [sched EXCEPT !.wpc[w] = "none", !.witem[w] = 0])

WorkerStep(w) ==
    \/ WorkerTakes(w)
    \/ WorkerAnnounces(w)
    \/ WorkerExecutes(w)
    \/ WorkerReports(w)
    \/ WorkerSleeps(w)

NextWorker ==
    \/ \E h \in Handlers : HandlerAdds(h)
    \/ \E h \in Handlers : HandlerStarts(h)
    \/ \E w \in Workers : WorkerTakes(w)
    \/ \E w \in Workers : WorkerAnnounces(w)
    \/ \E w \in Workers : WorkerExecutes(w)
    \/ \E w \in Workers : WorkerReports(w)
    \/ \E w \in Workers : WorkerSleeps(w)

\* every awaited send, download and sleep ends, and a created task is run
SpecWorker ==
    /\ InitWorker
    /\ [][NextWorker]_vars
    /\ \A w \in Workers : WF_vars(WorkerStep(w))

\* the tasks created and not yet finished
Running == {w \in Workers : sched.wpc[w] # "none"}

\* the item objects whose status is 'downloading'
NowDownloading == {queue[i].serial : i \in {j \in DOMAIN queue : queue[j].status = "downloading"}}

\* C31: for any interleaving of the handlers at most one process_download_queue task
\* is running at any time, and hence at most one item has status 'downloading'
C31_OneWorkerOneDownloading ==
    /\ Cardinality(Running) <= 1
    /\ Cardinality(NowDownloading) <= 1

\* the item objects whose status is 'completed' or 'failed'
Settled == {queue[i].serial : i \in {j \in DOMAIN queue : queue[j].status \in {"completed", "failed"}}}

\* C32: every item the loop marks 'downloading' is eventually marked 'completed' or
\* 'failed', whatever the download or a send does, and a loop stops only when no
\* pending item remains
C32_TakenItemsSettle ==
    /\ \A s \in 1..MaxWorkItems : (s \in NowDownloading) ~> (s \in Settled)
    /\ [][\A w \in Workers :
              (sched.wpc[w] # "none" /\ sched'.wpc[w] = "none") => FirstPending(queue') = 0]_vars

----------------------------------------------------------------------------
(* Specification of src/bot.py on the compatibility functions of the refactored
   module: handlers call add_to_queue (add_item), await a message and start
   process_download_queue when is_queue_processing() (the manager's
   is_processing) is false; the loop calls get_next_queue_item (get_next_item),
   assigns its own global current_download and plain strings to item.status, and
   calls save_queue (_save_queue).  A status written as a plain string is in lower
   case here; the members of QueueStatus are in upper case *)

MaxDriveItems == 3

\* the statuses bot.py assigns: str objects, not members of QueueStatus
RawStatus == {"downloading", "completed", "failed"}

\* _save_queue when the list is q: item.to_dict() evaluates self.status.value, which
\* raises AttributeError for a str; the except logs it and the file is not opened
DriverWrite(q) ==
    IF \E i \in DOMAIN q : q[i].status \in RawStatus THEN "open_fail" ELSE "ok"

InitDriver ==
    /\ queue = <<>>
    /\ current = NoCurrent
    /\ queue_file = NoFile
    /\ backup_file = NoFile
    /\ nextId = 1
    /\ now = 1
    /\ op = [name |-> "__init__", id |-> NoId]
    /\ ret = Returned(NoId)
    /\ events = <<>>
    /\ pendingOrder = <<>>
    /\ retried = [i \in 1..(MaxItems + 1) |-> 0]
    /\ listeners = <<>>
    /\ delivered = <<>>
    /\ sched = [hpc |-> [h \in Handlers |-> "idle"],
                wpc |-> [w \in Workers |-> "none"],
                witem |-> [w \in Workers |-> 0]]
    /\ exported = [download_queue |-> <<>>, shared |-> TRUE, current_download |-> NoCurrent]

\* what a step of a handler or of the loop leaves in the manager and in the coroutines
DriverStep(name, id, r, q2, cur2, file2, sched2) ==
    /\ queue' = q2
    /\ current' = cur2
    /\ queue_file' = file2
    /\ op' = [name |-> name, id |-> id]
    /\ ret' = r
    /\ pendingOrder' = TrackPending(q2)
    /\ exported' = Exported(name, q2)
    /\ sched' = sched2
    /\ UNCHANGED <<backup_file, now, events, retried, listeners, delivered>>

\* the handler: await add_to_queue(chat_id, url, 'images', user_name), then the await
\* of send_progress_message; a ValueError of add_item ends the handler
DriverAdds(h) ==
    /\ sched.hpc[h] = "idle"
    /\ nextId <= MaxDriveItems
    /\ IF Len(queue) >= max_queue_size
       THEN /\ DriverStep("add_item", NoId, Raised(ValueError), queue, current, queue_file, sched)
            /\ UNCHANGED nextId
       ELSE LET item == NewItem(nextId, h, "NORMAL", 3)
                q1 == _insert_by_priority(queue, item)
                wr == DriverWrite(q1)
            IN /\ DriverStep("add_item", item.id, Returned(item.id), SavedQueue(q1, wr),
                             current, SavedFile(q1, wr), [sched EXCEPT !.hpc[h] = "added"])
               /\ nextId' = nextId + 1

\* the handler resumes: `if not is_queue_processing(): asyncio.create_task(...)`
DriverStarts(h) ==
    /\ sched.hpc[h] = "added"
    /\ UNCHANGED nextId
    /\ IF is_processing
       THEN DriverStep("download_images", h, Returned(NoId), queue, current, queue_file,
                       [sched EXCEPT !.hpc[h] = "idle"])
       ELSE \E w \in Workers :
               /\ sched.wpc[w] = "none"
               /\ \A v \in Workers : v < w => sched.wpc[v] # "none"
               /\ DriverStep("download_images", h, Returned(NoId), queue, current, queue_file,
                             [sched EXCEPT !.hpc[h] = "idle", !.wpc[w] = "created"])

\* process_download_queue of src/bot.py, which runs to its end without suspending:
\* get_next_item marks the first pending item DOWNLOADING, sets the manager's marker
\* and saves; the loop assigns item.status = 'downloading' and calls save_queue();
\* building the first message evaluates item.download_type.title(), which raises
\* AttributeError for a member of DownloadType; the except assigns 'failed', calls
\* save_queue() and breaks.  With nothing pending the loop breaks at once.
DriverRuns(w) ==
    /\ sched.wpc[w] = "created"
    /\ UNCHANGED nextId
    /\ LET pend == {i \in DOMAIN queue : queue[i].status = "PENDING"}
           done == [sched EXCEPT !.wpc[w] = "none"]
       IN IF pend = {}
          THEN DriverStep("process_download_queue", NoId, Returned(NoId), queue, current,
                          queue_file, done)
          ELSE LET i == CHOOSE k \in pend : \A j \in pend : k <= j
                   item == [queue[i] EXCEPT !.status = "DOWNLOADING", !.started_time = now]
                   q1 == [queue EXCEPT ![i] = item]
                   wr == DriverWrite(q1)
                   q2 == SavedQueue(q1, wr)
                   at == _find_item(q2, item.id)
               IN DriverStep("process_download_queue", item.id, Returned(item.id),
                             [q2 EXCEPT ![at].status = "failed", ![at].error_message = "raised"],
                             [id |-> item.id, chat_id |-> item.chat_id],
                             SavedFile(q1, wr), done)

NextDriver ==
    \/ \E h \in Handlers : DriverAdds(h)
    \/ \E h \in Handlers : DriverStarts(h)
    \/ \E w \in Workers : DriverRuns(w)

\* a handler's awaited message ends and a created task is run
SpecDriver ==
    /\ InitDriver
    /\ [][NextDriver]_vars
    /\ \A h \in Handlers : WF_vars(DriverStarts(h))
    /\ \A w \in Workers : WF_vars(DriverRuns(w))

\* C33: every item added through a handler is eventually taken by a worker loop;
\* once the loop has exited is_queue_processing() is false; and while a loop is
\* running no second one is started
C33_AddedItemsAreTaken ==
    /\ \A id \in 1..MaxDriveItems :
          (id \in Ids(queue)) ~> (id \in Ids(queue) /\ Item(id).status # "PENDING")
    /\ [](Running = {} => ~is_processing)
    /\ [](Cardinality(Running) <= 1)
====
